---------------------------- MODULE Spec2Model ----------------------------
(***************************************************************************)
(* MiniBf (src/bf/bf.c): the jump resolver InitLoops, the interpreter      *)
(* ExecuteSource and the translator bf_to_c, as a state machine.           *)
(*                                                                         *)
(* Positions into the source are 0-based as in the C code; the character   *)
(* at position p of a sequence s is s[p + 1].                              *)
(***************************************************************************)
EXTENDS Integers, Sequences, FiniteSets, TLC

(***************************************************************************)
(* Bounds of the model.                                                    *)
(***************************************************************************)
\* longest program of the general specification
MaxLen == 3
\* longest program of the bracket-only specification
MaxBrLen == 6
\* largest number of leading '+' of the counted-loop family
MaxPlus == 8
\* longest program of the overflow specification
MaxLoopLen == 4
\* longest program of the translation specification
MaxTrLen == 3
\* longest standard-input stream
MaxIn == 1
\* highest tape cell the model keeps (the code's tape has TAPESIZE cells)
MaxCell == 2
\* most items a run may write to standard output before the model stops it
MaxOut == 3
\* longest program of the pointer-scan specification
MaxScanLen == 4
\* largest number of leading '+' of the counted-output family
MaxDotPlus == 257
\* most arguments on a command line of shred
MaxArgs == 3
\* longest batch of program text typed in interactive mode
MaxBatchLen == 2
\* longest program of the specification of the second run
MaxStripLen == 5
\* longest input file of bf -t
MaxEmitLen == 4
\* longest batch of brackets typed in interactive mode
MaxBrBatchLen == 3

(***************************************************************************)
(* Program constants.                                                      *)
(***************************************************************************)
\* getchar()'s end-of-input value
EOF == -1
\* '\n'
NEWLINE == 10
\* largest value of a short int cell ("CELL SIZE: 0-32767")
SHRT_MAX == 32767
\* largest value of an unsigned char
UCHAR_MAX == 255
\* shred: the passes of the default level
DefaultPasses == 38
\* shred: the random passes after the 0xFF pass
RandomPasses == 5
\* swordle: WORD_LENGTH
WORD_LENGTH == 5
\* swordle: MAX_GUESSES
MAX_GUESSES == 6
\* swordle: GUESS_ARRAY_SIZE
GUESS_ARRAY_SIZE == MAX_GUESSES * WORD_LENGTH
\* swordle: NULL_CHAR
NULL_CHAR == ""

VARIABLES
  source,           \* char source[]: the program text, source_length = Len(source)
  source_ptr,       \* int source_ptr
  stack,            \* int stack[]
  stack_ptr,        \* int stack_ptr
  loops,            \* int loops[]
  tape,             \* short int tape[]
  cell,             \* short int cell
  max_cell_used,    \* short int max_cell_used
  user_input,       \* int user_input
  debug_counter,    \* int debug_counter
  memory_counter,   \* int memory_counter
  stdin,            \* the bytes standard input still holds
  out,              \* what has been written to standard output, in order
  err,              \* the reports written to standard error, in order
  pc,               \* where the process is
  ub,               \* TRUE once the run has read or written outside the tape
  c_prog,           \* the statements bf_to_c has written to the output file
  c_pc,             \* the statement the compiled program is at
  c_cells,          \* the compiled program's buffer: unsigned char *cells
  c_cell,           \* the compiled program's pointer, as cell - cells
  c_stdin,          \* the bytes the compiled program's standard input holds
  c_out,            \* what the compiled program has written to standard output
  c_state,          \* where the translation and the compiled program are
  c_ub,             \* TRUE once the compiled program has left its buffer
  mode,             \* how main was started: "file" (bf -f) or "interactive"
  run1,             \* the input given, and what an earlier run of the text left
  argv,             \* shred: the arguments after the program name
  level,            \* shred: int level
  passes,           \* shred: int passes of secure_overwrite
  pass_i,           \* shred: the loop index i of secure_overwrite
  written,          \* shred: the passes written to the file descriptor, in order
  sh_pc,            \* shred: where the process is
  current_line,     \* swordle: int current_line
  game_over,        \* swordle: bool game_over
  sw_user_input,    \* swordle: char user_input[]
  current_word,     \* swordle: char current_word[]
  guess_list,       \* swordle: char guess_list[]
  outcome,          \* swordle: what end_game announced in this game
  sw_ub,            \* swordle: TRUE once a write has left guess_list
  sw_pc,            \* swordle: where the process is
  t_text,           \* bf -t: the characters of the input file
  t_pos,            \* bf -t: how many of them getc has returned
  t_file,           \* bf -t: the lines written to the output file, in order
  t_pc              \* bf -t: where bf_to_c is

vars == <<source, source_ptr, stack, stack_ptr, loops, tape, cell,
          max_cell_used, user_input, debug_counter, memory_counter,
          stdin, out, err, pc, ub,
          c_prog, c_pc, c_cells, c_cell, c_stdin, c_out, c_state, c_ub,
          mode, run1,
          argv, level, passes, pass_i, written, sh_pc,
          current_line, game_over, sw_user_input, current_word, guess_list,
          outcome, sw_ub, sw_pc,
          t_text, t_pos, t_file, t_pc>>

\* the translation and the program it emits
cvars == <<c_prog, c_pc, c_cells, c_cell, c_stdin, c_out, c_state, c_ub>>

\* the interpreter
ivars == <<source, source_ptr, stack, stack_ptr, loops, tape, cell,
           max_cell_used, user_input, debug_counter, memory_counter,
           stdin, out, err, pc, ub>>

\* shred
shvars == <<argv, level, passes, pass_i, written, sh_pc>>

\* swordle
swvars == <<current_line, game_over, sw_user_input, current_word, guess_list,
            outcome, sw_ub, sw_pc>>

\* bf -t
tvars == <<t_text, t_pos, t_file, t_pc>>

\* what a run of the interpreter or of the compiled program leaves alone
xvars == <<mode, run1, shvars, swvars, tvars>>

(***************************************************************************)
(* Source text.                                                            *)
(***************************************************************************)
\* source_length
source_length == Len(source)

\* source[p]
SrcAt(src, p) == src[p + 1]

\* the positions 0 .. source_length - 1
Positions(src) == 0 .. (Len(src) - 1)

\* the cells the model keeps
TapeIdx == 0 .. MaxCell

\* every text of at most n characters over the alphabet A
Progs(A, n) == UNION {[1 .. k -> A] : k \in 0 .. n}

\* the eight operators, the two debug dumps and a comment character
AllChars == {"+", "-", "<", ">", ",", ".", "[", "]", "#", "@", "x"}

\* the bytes standard input may hold
InBytes == {NEWLINE, 65}

Inputs == Progs(InBytes, MaxIn)

\* a program that never executes ',' never calls getchar(): its standard
\* input is taken empty
InputsFor(src) ==
  IF \E p \in Positions(src) : SrcAt(src, p) = "," THEN Inputs ELSE {<<>>}

\* the brackets and a comment character
BracketChars == {"[", "]", "x"}

\* the number of '[' less the number of ']' among the first k characters
Depth(src, k) ==
  Cardinality({i \in 1 .. k : src[i] = "["}) - Cardinality({i \in 1 .. k : src[i] = "]"})

\* the characters at positions a .. b nest: no ']' before its '[', none pending
Nested(src, a, b) ==
  /\ \A k \in a .. b : Depth(src, k + 1) >= Depth(src, a)
  /\ Depth(src, b + 1) = Depth(src, a)

\* well-balanced brackets
Balanced(src) == Nested(src, 0, Len(src) - 1)

BalancedProgs(A, n) == {src \in Progs(A, n) : Balanced(src)}

(***************************************************************************)
(* Arithmetic of the cell types.                                           *)
(***************************************************************************)
\* conversion of an int to short int (gcc: modulo 2^16)
ToShort(v) == ((v + SHRT_MAX + 1) % (2 * (SHRT_MAX + 1))) - (SHRT_MAX + 1)

\* conversion of an int to unsigned char (modulo 2^8)
ToUChar(v) == v % (UCHAR_MAX + 1)

\* case '+': tape[cell]++
IncCell(v) == ToShort(v + 1)

\* a '-' without the test: tape[cell]--
DecCellWrap(v) == ToShort(v - 1)

\* case '-': if (tape[cell] > 0) tape[cell]--
DecCell(v) == IF v > 0 THEN v - 1 ELSE v

\* a ',' without the EOF test: tape[cell] = getchar()
StoreInputAlways(v, u) == ToShort(u)

\* case ',': the cell after user_input = getchar()
StoreInput(v, u) ==
  IF u = EOF THEN v
  ELSE IF ToShort(u) = NEWLINE THEN 10 ELSE ToShort(u)

\* getchar() on a stream
GetChar(s) == IF s = <<>> THEN EOF ELSE Head(s)

\* the stream after getchar()
AfterGetChar(s) == IF s = <<>> THEN s ELSE Tail(s)

\* a '[' that allows for the loop's source_ptr++ and lands before its target
BranchOpenBefore(v, sp, lp) == IF v = 0 THEN lp[sp] - 1 ELSE sp

\* a '[' that jumps on a non-zero cell
BranchOpenOnNonZero(v, sp, lp) == IF v # 0 THEN lp[sp] ELSE sp

\* case '[': if (!tape[cell]) source_ptr = loops[source_ptr]
BranchOpen(v, sp, lp) == IF v = 0 THEN lp[sp] ELSE sp

\* a ']' that jumps back onto its '[' for the '[' to test the cell again
BranchCloseBefore(v, sp, lp) == IF v # 0 THEN lp[sp] - 1 ELSE sp

\* a ']' that jumps back on zero
BranchCloseOnZero(v, sp, lp) == IF v = 0 THEN lp[sp] ELSE sp

\* case ']': if (tape[cell]) source_ptr = loops[source_ptr]
BranchClose(v, sp, lp) == IF v # 0 THEN lp[sp] ELSE sp

\* case '>': if (cell > max_cell_used) max_cell_used = cell
HighWater(c, m) == IF c > m THEN c ELSE m

(***************************************************************************)
(* What the process writes.                                                *)
(***************************************************************************)
\* a putchar that writes the int it is given
PutCharRaw(v) == <<"byte", v>>

\* putchar(v): one byte on standard output
PutChar(v) == <<"byte", ToUChar(v)>>

\* a report numbered with ++debug_counter
CellDumpPreInc(n, c, v) == <<"#", n + 1, c, v>>

\* the report of case '#'
CellDump(n, c, v) == <<"#", n, c, v>>

\* a tape report under the heading of the cell report
TapeDumpAsCell(n, tp, m) == <<"#", n, 0, tp[0]>>

\* the report of case '@': cells 0 .. max_cell_used
TapeDump(n, tp, m) == <<"@", n, [i \in 1 .. (m + 1) |-> tp[i - 1]]>>

\* a report that counts positions from 1
MissingOpenFromOne(p) == [kind |-> "missing [", pos |-> p + 1, caret |-> p + 1]

\* the report of a ']' without '['
MissingOpen(p) == [kind |-> "missing [", pos |-> p, caret |-> p]

\* the report of a '[' without ']'
MissingClose(p) == [kind |-> "missing ]", pos |-> p, caret |-> p]

(***************************************************************************)
(* InitLoops.                                                              *)
(***************************************************************************)
\* stack[stack_ptr++] = source_ptr
Push(stk, sptr, p) == [stk EXCEPT ![sptr] = p]

\* a resolver that pops the oldest entry instead of the newest
Bottom(stk, sptr) == stk[0]

\* --stack_ptr; stack[stack_ptr]: the entry pushed last
Top(stk, sptr) == stk[sptr - 1]

\* a resolver that records the jump back and forgets the jump forward
PairLoopsOneWay(lp, open, close) == [lp EXCEPT ![close] = open]

\* loops[source_ptr] = stack[stack_ptr]; loops[stack[stack_ptr]] = source_ptr
PairLoops(lp, open, close) == [[lp EXCEPT ![close] = open] EXCEPT ![open] = close]

\* the report after the scan: if (stack_ptr > 0) ... stack[--stack_ptr]
PendingReport(stk, sptr) ==
  IF sptr > 0 THEN <<MissingClose(Top(stk, sptr))>> ELSE <<>>

\* ExecuteSource calls InitLoops: stack_ptr = 0; source_ptr = 0
InitLoopsEnter ==
  /\ pc = "loaded"
  /\ pc' = "scan"
  /\ stack_ptr' = 0
  /\ source_ptr' = 0
  /\ UNCHANGED <<source, stack, loops, tape, cell, max_cell_used, user_input,
                 debug_counter, memory_counter, stdin, out, err, ub>>
  /\ UNCHANGED cvars
  /\ UNCHANGED xvars

\* one iteration of the scan
InitLoopsStep ==
  /\ pc = "scan"
  /\ source_ptr < source_length
  /\ LET c == SrcAt(source, source_ptr) IN
       IF c = "["
       THEN /\ stack' = Push(stack, stack_ptr, source_ptr)
            /\ stack_ptr' = stack_ptr + 1
            /\ UNCHANGED <<loops, err>>
       ELSE IF c = "]"
       THEN IF stack_ptr = 0
            THEN /\ err' = Append(err, MissingOpen(source_ptr))
                 /\ UNCHANGED <<stack, stack_ptr, loops>>
            ELSE /\ stack_ptr' = stack_ptr - 1
                 /\ loops' = PairLoops(loops, Top(stack, stack_ptr), source_ptr)
                 /\ UNCHANGED <<stack, err>>
       ELSE UNCHANGED <<stack, stack_ptr, loops, err>>
  /\ source_ptr' = source_ptr + 1
  /\ UNCHANGED <<source, tape, cell, max_cell_used, user_input,
                 debug_counter, memory_counter, stdin, out, pc, ub>>
  /\ UNCHANGED cvars
  /\ UNCHANGED xvars

\* the end of the scan, the report of a pending '[' and the return to
\* ExecuteSource, whose loop starts at source_ptr = 0
InitLoopsEnd ==
  /\ pc = "scan"
  /\ source_ptr >= source_length
  /\ err' = err \o PendingReport(stack, stack_ptr)
  /\ stack_ptr' = IF stack_ptr > 0 THEN stack_ptr - 1 ELSE stack_ptr
  /\ source_ptr' = 0
  /\ pc' = "exec"
  /\ UNCHANGED <<source, stack, loops, tape, cell, max_cell_used, user_input,
                 debug_counter, memory_counter, stdin, out, ub>>
  /\ UNCHANGED cvars
  /\ UNCHANGED xvars

(***************************************************************************)
(* ExecuteSource.                                                          *)
(***************************************************************************)
\* the instructions that read or write tape[cell]
Touches(c) == c \in {"+", "-", ",", ".", "[", "]", "#"}

\* the instructions that write to standard output
Writes(c) == c \in {".", "#", "@"}

\* what a read outside the tape may yield, when the process survives it
UBReads == {0, 1}

\* a switch whose case '@' counts through the tape with the pointer itself
SwitchDumpMoves(c, v, inTape) ==
  /\ tape' = IF ~inTape THEN tape
             ELSE IF c = "+" THEN [tape EXCEPT ![cell] = IncCell(v)]
             ELSE IF c = "-" THEN [tape EXCEPT ![cell] = DecCell(v)]
             ELSE IF c = "," THEN [tape EXCEPT ![cell] = StoreInput(v, GetChar(stdin))]
             ELSE tape
  /\ cell' = IF c = "<" THEN ToShort(cell - 1)
             ELSE IF c = ">" THEN ToShort(cell + 1)
             ELSE IF c = "@" THEN ToShort(max_cell_used + 1)
             ELSE cell
  /\ max_cell_used' = IF c = ">" THEN HighWater(ToShort(cell + 1), max_cell_used)
                      ELSE max_cell_used
  /\ user_input' = IF c = "," THEN GetChar(stdin) ELSE user_input
  /\ stdin' = IF c = "," THEN AfterGetChar(stdin) ELSE stdin
  /\ out' = IF c = "." THEN Append(out, PutChar(v))
            ELSE IF c = "#" THEN Append(out, CellDump(debug_counter, cell, v))
            ELSE IF c = "@" THEN Append(out, TapeDump(memory_counter, tape, max_cell_used))
            ELSE out
  /\ debug_counter' = IF c = "#" THEN debug_counter + 1 ELSE debug_counter
  /\ memory_counter' = IF c = "@" THEN memory_counter + 1 ELSE memory_counter
  /\ source_ptr' = 1 + (IF c = "[" THEN BranchOpen(v, source_ptr, loops)
                        ELSE IF c = "]" THEN BranchClose(v, source_ptr, loops)
                        ELSE source_ptr)

\* the switch on source[source_ptr] and the loop's source_ptr++, with v the
\* value read as tape[cell]; a write lands on the tape when inTape
Switch(c, v, inTape) ==
  /\ tape' = IF ~inTape THEN tape
             ELSE IF c = "+" THEN [tape EXCEPT ![cell] = IncCell(v)]
             ELSE IF c = "-" THEN [tape EXCEPT ![cell] = DecCell(v)]
             ELSE IF c = "," THEN [tape EXCEPT ![cell] = StoreInput(v, GetChar(stdin))]
             ELSE tape
  /\ cell' = IF c = "<" THEN ToShort(cell - 1)
             ELSE IF c = ">" THEN ToShort(cell + 1)
             ELSE cell
  /\ max_cell_used' = IF c = ">" THEN HighWater(ToShort(cell + 1), max_cell_used)
                      ELSE max_cell_used
  /\ user_input' = IF c = "," THEN GetChar(stdin) ELSE user_input
  /\ stdin' = IF c = "," THEN AfterGetChar(stdin) ELSE stdin
  /\ out' = IF c = "." THEN Append(out, PutChar(v))
            ELSE IF c = "#" THEN Append(out, CellDump(debug_counter, cell, v))
            ELSE IF c = "@" THEN Append(out, TapeDump(memory_counter, tape, max_cell_used))
            ELSE out
  /\ debug_counter' = IF c = "#" THEN debug_counter + 1 ELSE debug_counter
  /\ memory_counter' = IF c = "@" THEN memory_counter + 1 ELSE memory_counter
  /\ source_ptr' = 1 + (IF c = "[" THEN BranchOpen(v, source_ptr, loops)
                        ELSE IF c = "]" THEN BranchClose(v, source_ptr, loops)
                        ELSE source_ptr)

\* one iteration of the execution loop
ExecuteSourceStep ==
  /\ pc = "exec"
  /\ source_ptr < source_length
  /\ LET c == SrcAt(source, source_ptr) IN
       \* the model keeps cells 0 .. MaxCell and MaxOut items of output
       /\ ~(c = ">" /\ cell >= MaxCell)
       /\ ~(Writes(c) /\ Len(out) >= MaxOut)
       /\ IF ~Touches(c) \/ cell \in TapeIdx
          THEN /\ Switch(c, IF cell \in TapeIdx THEN tape[cell] ELSE 0, TRUE)
               /\ UNCHANGED <<pc, ub>>
          ELSE \E crash \in BOOLEAN, o \in UBReads :
                 IF crash
                 THEN /\ pc' = "crashed"
                      /\ ub' = TRUE
                      /\ UNCHANGED <<source_ptr, tape, cell, max_cell_used,
                                     user_input, debug_counter, memory_counter,
                                     stdin, out>>
                 ELSE /\ Switch(c, o, FALSE)
                      /\ ub' = TRUE
                      /\ UNCHANGED pc
  /\ UNCHANGED <<source, stack, stack_ptr, loops, err>>
  /\ UNCHANGED cvars
  /\ UNCHANGED xvars

\* the end of the run: printf("\n")
ExecuteSourceEnd ==
  /\ pc = "exec"
  /\ source_ptr >= source_length
  /\ out' = Append(out, PutChar(NEWLINE))
  /\ pc' = "halted"
  /\ UNCHANGED <<source, source_ptr, stack, stack_ptr, loops, tape, cell,
                 max_cell_used, user_input, debug_counter, memory_counter,
                 stdin, err, ub>>
  /\ UNCHANGED cvars
  /\ UNCHANGED xvars

(***************************************************************************)
(* bf_to_c and the program it emits.                                       *)
(***************************************************************************)
\* a switch without the case ']'
SnippetNoClose(c) ==
  IF c = ">" THEN "++cell;"
  ELSE IF c = "<" THEN "--cell;"
  ELSE IF c = "+" THEN "++*cell;"
  ELSE IF c = "-" THEN "--*cell;"
  ELSE IF c = "." THEN "putchar(*cell);"
  ELSE IF c = "," THEN "*cell = getchar();"
  ELSE IF c = "[" THEN "while (*cell) {"
  ELSE ""

\* a switch whose case '#' writes a statement
SnippetForDump(c) ==
  IF c = ">" THEN "++cell;"
  ELSE IF c = "<" THEN "--cell;"
  ELSE IF c = "+" THEN "++*cell;"
  ELSE IF c = "-" THEN "--*cell;"
  ELSE IF c = "." THEN "putchar(*cell);"
  ELSE IF c = "," THEN "*cell = getchar();"
  ELSE IF c = "[" THEN "while (*cell) {"
  ELSE IF c = "]" THEN "}"
  ELSE IF c = "#" THEN "putchar(*cell);"
  ELSE ""

\* the switch of bf_to_c: the statement written for the character c, "" for
\* a character that is skipped
Snippet(c) ==
  IF c = ">" THEN "++cell;"
  ELSE IF c = "<" THEN "--cell;"
  ELSE IF c = "+" THEN "++*cell;"
  ELSE IF c = "-" THEN "--*cell;"
  ELSE IF c = "." THEN "putchar(*cell);"
  ELSE IF c = "," THEN "*cell = getchar();"
  ELSE IF c = "[" THEN "while (*cell) {"
  ELSE IF c = "]" THEN "}"
  ELSE ""

\* the statements between the prologue and the epilogue, in source order
Emitted(src) ==
  LET Written(t) == t # ""
  IN  SelectSeq([i \in 1 .. Len(src) |-> Snippet(src[i])], Written)

\* the block structure of the emitted statements, as brackets
Blocks(prog) ==
  [i \in 1 .. Len(prog) |->
     IF prog[i] = "while (*cell) {" THEN "["
     ELSE IF prog[i] = "}" THEN "]" ELSE "x"]

\* the statement closing the block that statement k opens
BlockEnd(prog, k) ==
  CHOOSE j \in Positions(prog) :
    /\ j > k
    /\ Blocks(prog)[j + 1] = "]"
    /\ Nested(Blocks(prog), k + 1, j - 1)

\* the statement opening the block that statement k closes
BlockStart(prog, k) ==
  CHOOSE i \in Positions(prog) :
    /\ i < k
    /\ Blocks(prog)[i + 1] = "["
    /\ Nested(Blocks(prog), i + 1, k - 1)

\* ++*cell on an unsigned char
CInc(v) == ToUChar(v + 1)

\* --*cell on an unsigned char
CDec(v) == ToUChar(v - 1)

\* *cell = getchar(): EOF is stored as (unsigned char) EOF
CStore(u) == ToUChar(u)

\* bf -t: bf_to_c writes the program
Translate ==
  /\ pc = "halted"
  /\ c_state = "none"
  /\ Balanced(source)
  /\ c_prog' = Emitted(source)
  /\ c_pc' = 0
  /\ c_state' = "run"
  /\ UNCHANGED <<c_cells, c_cell, c_stdin, c_out, c_ub>>
  /\ UNCHANGED ivars
  /\ UNCHANGED xvars

\* the statement t of the emitted program, with v the value read as *cell;
\* a write lands in the buffer when inBuf
Statement(t, v, inBuf) ==
  /\ c_cells' = IF ~inBuf THEN c_cells
                ELSE IF t = "++*cell;" THEN [c_cells EXCEPT ![c_cell] = CInc(v)]
                ELSE IF t = "--*cell;" THEN [c_cells EXCEPT ![c_cell] = CDec(v)]
                ELSE IF t = "*cell = getchar();"
                  THEN [c_cells EXCEPT ![c_cell] = CStore(GetChar(c_stdin))]
                ELSE c_cells
  /\ c_cell' = IF t = "++cell;" THEN c_cell + 1
               ELSE IF t = "--cell;" THEN c_cell - 1
               ELSE c_cell
  /\ c_stdin' = IF t = "*cell = getchar();" THEN AfterGetChar(c_stdin) ELSE c_stdin
  /\ c_out' = IF t = "putchar(*cell);" THEN Append(c_out, PutChar(v)) ELSE c_out
  /\ c_pc' = IF t = "while (*cell) {" /\ v = 0 THEN BlockEnd(c_prog, c_pc) + 1
             ELSE IF t = "}" THEN BlockStart(c_prog, c_pc)
             ELSE c_pc + 1

\* the statements that read or write *cell
Dereferences(t) == t \notin {"++cell;", "--cell;", "}"}

\* one statement of the compiled program
CompiledStep ==
  /\ c_state = "run"
  /\ c_pc < Len(c_prog)
  /\ LET t == SrcAt(c_prog, c_pc) IN
       \* the model keeps bytes 0 .. MaxCell and MaxOut items of output
       /\ ~(t = "++cell;" /\ c_cell >= MaxCell)
       /\ ~(t = "putchar(*cell);" /\ Len(c_out) >= MaxOut)
       /\ IF ~Dereferences(t) \/ c_cell \in TapeIdx
          THEN /\ Statement(t, IF c_cell \in TapeIdx THEN c_cells[c_cell] ELSE 0, TRUE)
               /\ UNCHANGED <<c_state, c_ub>>
          ELSE \E crash \in BOOLEAN, o \in UBReads :
                 IF crash
                 THEN /\ c_state' = "crashed"
                      /\ c_ub' = TRUE
                      /\ UNCHANGED <<c_pc, c_cells, c_cell, c_stdin, c_out>>
                 ELSE /\ Statement(t, o, FALSE)
                      /\ c_ub' = TRUE
                      /\ UNCHANGED c_state
  /\ UNCHANGED c_prog
  /\ UNCHANGED ivars
  /\ UNCHANGED xvars

\* the epilogue: free(cells); return 0
CompiledEnd ==
  /\ c_state = "run"
  /\ c_pc >= Len(c_prog)
  /\ c_state' = "done"
  /\ UNCHANGED <<c_prog, c_pc, c_cells, c_cell, c_stdin, c_out, c_ub>>
  /\ UNCHANGED ivars
  /\ UNCHANGED xvars

(***************************************************************************)
(* bf -t: bf_to_c writing the output file, line by line.                   *)
(***************************************************************************)
\* the first fprintf of bf_to_c, one item for each line that is not empty
Prologue ==
  <<"#include <stdio.h>",
    "#include <stdlib.h>",
    "int main(int argc, char **argv)",
    "{",
    "unsigned char *cell = calloc(16777216, 1);",
    "unsigned char *cells = cell;",
    "if (!cell) {",
    "fprintf(stderr, \"Error allocating memory.\\n\");",
    "return 1;",
    "}">>

\* the last fprintf of bf_to_c
Epilogue == <<"free(cells);", "return 0;", "}">>

\* what one pass of the while loop of bf_to_c writes for the character c
EmitFor(c) == IF Snippet(c) = "" THEN <<>> ELSE <<Snippet(c)>>

\* bf_to_c opens its two files and writes the prologue; a file that cannot
\* be opened is reported and ends the process
BfToCOpen ==
  /\ t_pc = "start"
  /\ \E opened \in {"both", "no input", "no output"} :
       IF opened = "both"
       THEN /\ t_file' = Prologue
            /\ t_pc' = "emit"
            /\ UNCHANGED err
       ELSE /\ err' = Append(err, [kind |-> "could not open", pos |-> 0, caret |-> 0])
            /\ t_pc' = "failed"
            /\ UNCHANGED t_file
  /\ UNCHANGED <<t_text, t_pos>>
  /\ UNCHANGED <<source, source_ptr, stack, stack_ptr, loops, tape, cell,
                 max_cell_used, user_input, debug_counter, memory_counter,
                 stdin, out, pc, ub>>
  /\ UNCHANGED <<cvars, mode, run1, shvars, swvars>>

\* one pass of while ((c = getc(in)) != EOF) with its switch
BfToCStep ==
  /\ t_pc = "emit"
  /\ t_pos < Len(t_text)
  /\ t_file' = t_file \o EmitFor(SrcAt(t_text, t_pos))
  /\ t_pos' = t_pos + 1
  /\ UNCHANGED <<t_text, t_pc>>
  /\ UNCHANGED <<ivars, cvars, mode, run1, shvars, swvars>>

\* getc returns EOF: the epilogue, fclose, and the message on standard output
BfToCEnd ==
  /\ t_pc = "emit"
  /\ t_pos >= Len(t_text)
  /\ t_file' = t_file \o Epilogue
  /\ out' = Append(out, <<"converted">>)
  /\ t_pc' = "done"
  /\ UNCHANGED <<t_text, t_pos>>
  /\ UNCHANGED <<source, source_ptr, stack, stack_ptr, loops, tape, cell,
                 max_cell_used, user_input, debug_counter, memory_counter,
                 stdin, err, pc, ub>>
  /\ UNCHANGED <<cvars, mode, run1, shvars, swvars>>

\* no bf -t
NoTranslator ==
  /\ t_text = <<>>
  /\ t_pos = 0
  /\ t_file = <<>>
  /\ t_pc = "absent"

(***************************************************************************)
(* shred: main and secure_overwrite.                                       *)
(***************************************************************************)
\* argc
argc == Len(argv) + 1

\* main's security level: argv[3], and only when argc == 4
LevelOf(av) ==
  IF Len(av) + 1 = 4 /\ av[3] = "-l" THEN 1
  ELSE IF Len(av) + 1 = 4 /\ av[3] = "-ll" THEN 2
  ELSE 0

\* the commands of main; each one calls secure_overwrite
Commands == {"srm", "sfill", "sswap", "smem"}

\* the commands that take a path as argv[2]
NeedsPath(cmd) == cmd \in {"srm", "sswap"}

\* int passes = level == 0 ? 38 : (level == 1 ? 2 : 1)
PassesFor(lv) == IF lv = 0 THEN DefaultPasses ELSE IF lv = 1 THEN 2 ELSE 1

\* the number of writes secure_overwrite makes
WritesOf(p) == IF p = 1 THEN 2 ELSE IF p = 2 THEN 1 + RandomPasses ELSE p

\* the i-th write of secure_overwrite(fd, size, p), counted from 0: what
\* memset filled the buffer with, and whether fsync follows the write
PassAt(p, i) ==
  IF p = 1 \/ p = 2
  THEN [kind |-> IF i = 0 THEN "ff" ELSE "random", flushed |-> FALSE]
  ELSE IF i = 0 THEN [kind |-> "ff", flushed |-> TRUE]
  ELSE IF i < 1 + RandomPasses THEN [kind |-> "random", flushed |-> TRUE]
  ELSE [kind |-> "special", byte |-> i, flushed |-> TRUE]

\* main up to the call of secure_overwrite: the usage errors, the level, the
\* system calls of the command (stat, open, statfs, swapoff, malloc), passes
ShredMain ==
  /\ sh_pc = "main"
  /\ level' = IF argc < 2 THEN level ELSE LevelOf(argv)
  /\ IF argc < 2 \/ argv[1] \notin Commands \/ (NeedsPath(argv[1]) /\ argc < 3)
     THEN /\ sh_pc' = "usage"
          /\ UNCHANGED <<passes, pass_i, written>>
     ELSE \E ok \in BOOLEAN :
            IF ok
            THEN /\ passes' = PassesFor(LevelOf(argv))
                 /\ pass_i' = 0
                 /\ sh_pc' = "overwrite"
                 /\ UNCHANGED written
            ELSE /\ sh_pc' = "failed"
                 /\ UNCHANGED <<passes, pass_i, written>>
  /\ UNCHANGED argv
  /\ UNCHANGED <<ivars, cvars, mode, run1, swvars, tvars>>

\* one memset and write of secure_overwrite; a short write ends the process
SecureOverwritePass ==
  /\ sh_pc = "overwrite"
  /\ pass_i < WritesOf(passes)
  /\ \E ok \in BOOLEAN :
       IF ok
       THEN /\ written' = Append(written, PassAt(passes, pass_i))
            /\ pass_i' = pass_i + 1
            /\ UNCHANGED sh_pc
       ELSE /\ sh_pc' = "failed"
            /\ UNCHANGED <<written, pass_i>>
  /\ UNCHANGED <<argv, level, passes>>
  /\ UNCHANGED <<ivars, cvars, mode, run1, swvars, tvars>>

\* free(buffer) and the return of secure_overwrite
SecureOverwriteEnd ==
  /\ sh_pc = "overwrite"
  /\ pass_i >= WritesOf(passes)
  /\ sh_pc' = "done"
  /\ UNCHANGED <<argv, level, passes, pass_i, written>>
  /\ UNCHANGED <<ivars, cvars, mode, run1, swvars, tvars>>

\* no shred process
NoShred ==
  /\ argv = <<>>
  /\ level = 0
  /\ passes = 0
  /\ pass_i = 0
  /\ written = <<>>
  /\ sh_pc = "absent"

(***************************************************************************)
(* swordle: get_input, start_game, check_victory, end_game.                *)
(***************************************************************************)
\* the letters isalpha accepts, of those the model types
Letters == {"C", "R", "A", "N", "E", "S", "L", "T", "P", "Y", "X", "I"}

\* the word list assign_random_word draws from
Words == {<<"C", "R", "A", "N", "E">>, <<"S", "L", "A", "T", "E">>}

PLAY == <<"P", "L", "A", "Y">>

EXIT == <<"E", "X", "I", "T">>

\* what guess[] may hold after fgets, the cut at the newline and
\* string_toupper: the commands, words, a non-word of letters, a line with a
\* digit, a short line, an empty line, and six characters of a longer line
GuessBuffers ==
  Words \cup {PLAY, EXIT,
              <<"T", "R", "A", "C", "E">>,
              <<"C", "R", "4", "N", "E">>,
              <<"A", "T">>,
              <<>>,
              <<"S", "L", "A", "T", "E", "S">>}

\* guess_list with every character NULL_CHAR
ClearGuessList == [k \in 0 .. (GUESS_ARRAY_SIZE - 1) |-> NULL_CHAR]

\* is_input_valid: five letters and then the end of the string
IsInputValid(str) ==
  /\ \A i \in 1 .. WORD_LENGTH : i <= Len(str) /\ str[i] \in Letters
  /\ Len(str) <= WORD_LENGTH

\* strncmp(a, b, n) == 0
StrNEq(a, b, n) ==
  LET Take(s) == SubSeq(s, 1, IF Len(s) < n THEN Len(s) ELSE n) IN Take(a) = Take(b)

\* a test for the loss that lets the seventh line through
LostLate(line, guessed) == line > MAX_GUESSES /\ ~guessed

\* check_victory: current_line == MAX_GUESSES && !guessed_correct_word
Lost(line, guessed) == line = MAX_GUESSES /\ ~guessed

\* get_input: is_input_valid(guess) && !game_over
Accepts(valid, over) == valid /\ ~over

\* the writes guess_list[(WORD_LENGTH * current_line) + i] = guess[i] that
\* land in guess_list
RecordGuess(gl, line, g) ==
  [k \in 0 .. (GUESS_ARRAY_SIZE - 1) |->
     IF k \in (WORD_LENGTH * line) .. (WORD_LENGTH * line + WORD_LENGTH - 1)
     THEN g[k - WORD_LENGTH * line + 1]
     ELSE gl[k]]

\* one pass of check_victory from start_label to its call of get_input, with
\* end_game: the new game_over and what was announced
CheckVictory(ui, w, line, over, oc) ==
  LET guessed == StrNEq(ui, w, WORD_LENGTH) IN
    [game_over |-> over \/ guessed \/ Lost(line, guessed),
     outcome |-> IF Lost(line, guessed) THEN "lost"
                 ELSE IF guessed THEN "won"
                 ELSE oc]

\* start_game with the word w, up to check_victory's call of get_input
StartGame(w) ==
  LET cv == CheckVictory(sw_user_input, w, 0, FALSE, "none") IN
    /\ current_line' = 0
    /\ guess_list' = ClearGuessList
    /\ current_word' = w
    /\ game_over' = cv.game_over
    /\ outcome' = cv.outcome
    /\ sw_pc' = "game"
    /\ UNCHANGED <<sw_user_input, sw_ub>>

\* get_input on the buffer g, and what its caller does when it returns:
\* main terminates, check_victory goes round to its next call of get_input
HandleGuess(g) ==
  IF Len(g) > WORD_LENGTH THEN UNCHANGED swvars
  ELSE IF g = PLAY THEN \E w \in Words : StartGame(w)
  ELSE IF g = EXIT
  THEN /\ sw_pc' = "exited"
       /\ UNCHANGED <<current_line, game_over, sw_user_input, current_word,
                      guess_list, outcome, sw_ub>>
  ELSE LET rec == Accepts(IsInputValid(g), game_over)
           line == IF rec THEN current_line + 1 ELSE current_line
           ui == IF rec THEN g ELSE sw_user_input
           cv == CheckVictory(ui, current_word, line, game_over, outcome)
       IN  /\ current_line' = line
           /\ sw_user_input' = ui
           /\ guess_list' = IF rec THEN RecordGuess(guess_list, current_line, g)
                            ELSE guess_list
           /\ sw_ub' = (sw_ub \/ (rec /\ current_line >= MAX_GUESSES))
           /\ IF sw_pc = "menu"
              THEN /\ sw_pc' = "exited"
                   /\ UNCHANGED <<game_over, outcome>>
              ELSE /\ game_over' = cv.game_over
                   /\ outcome' = cv.outcome
                   /\ UNCHANGED sw_pc
           /\ UNCHANGED current_word

\* get_input when fgets returns a line
GetInput ==
  /\ sw_pc \in {"menu", "game"}
  /\ \E g \in GuessBuffers : HandleGuess(g)
  /\ UNCHANGED <<ivars, cvars, mode, run1, shvars, tvars>>

\* get_input when fgets returns NULL: guess[] is read uninitialised
GetInputAtEof ==
  /\ sw_pc \in {"menu", "game"}
  /\ \E crash \in BOOLEAN, g \in GuessBuffers :
       IF crash
       THEN /\ sw_pc' = "crashed"
            /\ UNCHANGED <<current_line, game_over, sw_user_input, current_word,
                           guess_list, outcome, sw_ub>>
       ELSE HandleGuess(g)
  /\ UNCHANGED <<ivars, cvars, mode, run1, shvars, tvars>>

\* no swordle process
NoSwordle ==
  /\ current_line = 0
  /\ game_over = FALSE
  /\ sw_user_input = <<>>
  /\ current_word = <<>>
  /\ guess_list = ClearGuessList
  /\ outcome = "none"
  /\ sw_ub = FALSE
  /\ sw_pc = "absent"

(***************************************************************************)
(* A fresh process that has loaded a program (read_file).                  *)
(***************************************************************************)
Fresh(src, in) ==
  /\ source = src
  /\ stdin = in
  /\ source_ptr = 0
  /\ stack = [p \in Positions(src) |-> 0]
  /\ stack_ptr = 0
  /\ loops = [p \in Positions(src) |-> 0]
  /\ tape = [i \in TapeIdx |-> 0]
  /\ cell = 0
  /\ max_cell_used = 0
  /\ user_input = 0
  /\ debug_counter = 1
  /\ memory_counter = 1
  /\ out = <<>>
  /\ err = <<>>
  /\ pc = "loaded"
  /\ ub = FALSE
  /\ c_prog = <<>>
  /\ c_pc = 0
  /\ c_cells = [i \in TapeIdx |-> 0]
  /\ c_cell = 0
  /\ c_stdin = in
  /\ c_out = <<>>
  /\ c_state = "none"
  /\ c_ub = FALSE
  /\ mode = "file"
  /\ run1 = [state |-> "none", in |-> in]
  /\ NoTranslator
  /\ NoShred
  /\ NoSwordle

\* bf -f on a well-bracketed program
Init == \E src \in BalancedProgs(AllChars, MaxLen) : \E in \in InputsFor(src) : Fresh(src, in)

\* bf -f on any text of brackets and comments
InitBrackets == \E src \in Progs(BracketChars, MaxBrLen) : Fresh(src, <<>>)

Next ==
  \/ InitLoopsEnter
  \/ InitLoopsStep
  \/ InitLoopsEnd
  \/ ExecuteSourceStep
  \/ ExecuteSourceEnd

Spec == Init /\ [][Next]_vars

\* n times '+'
Plus(n) == [i \in 1 .. n |-> "+"]

\* bf -f on '+' n times, then "[-]"
InitPlusLoop == \E n \in 1 .. MaxPlus : Fresh(Plus(n) \o <<"[", "-", "]">>, <<>>)

\* bf -f on a well-bracketed program of '+', '-' and loops
InitOverflow == \E src \in BalancedProgs({"+", "-", "[", "]"}, MaxLoopLen) : Fresh(src, <<>>)

\* bf -f on a well-bracketed program, then bf -c on it and a run of the
\* executable on the same input
InitTranslate ==
  \E src \in BalancedProgs(AllChars, MaxTrLen) : \E in \in InputsFor(src) : Fresh(src, in)

NextTranslate ==
  \/ Next
  \/ Translate
  \/ CompiledStep
  \/ CompiledEnd

SpecTranslate == InitTranslate /\ [][NextTranslate]_vars

SpecOverflow == InitOverflow /\ [][Next]_vars

\* the process runs on: it is never suspended for ever
SpecPlusLoop == InitPlusLoop /\ [][Next]_vars /\ WF_vars(Next)

SpecBrackets == InitBrackets /\ [][Next]_vars /\ WF_vars(Next)

\* bf -f on a well-bracketed program of '+', pointer moves and loops
InitScan == \E src \in BalancedProgs({"+", "<", ">", "[", "]"}, MaxScanLen) : Fresh(src, <<>>)

SpecScan == InitScan /\ [][Next]_vars

\* bf -f on '+' n times, then '.'
InitPlusDot == \E n \in 0 .. MaxDotPlus : Fresh(Plus(n) \o <<".">>, <<>>)

SpecPlusDot == InitPlusDot /\ [][Next]_vars

(***************************************************************************)
(* Interactive mode: the loop of main.                                     *)
(***************************************************************************)
\* the byte of a character of program text
Code(c) ==
  CASE c = "+" -> 43 [] c = "-" -> 45 [] c = "<" -> 60 [] c = ">" -> 62
    [] c = "," -> 44 [] c = "." -> 46 [] c = "[" -> 91 [] c = "]" -> 93
    [] c = "#" -> 35 [] c = "@" -> 64 [] c = "x" -> 120
    [] c = "A" -> 65 [] c = "\n" -> NEWLINE

\* the characters that have a byte
Typed == AllChars \cup {"A", "\n"}

\* source[source_length++] = c: the character of a byte read by getchar
CharOf(b) == CHOOSE c \in Typed : Code(c) = b

\* the bytes of a text
Codes(src) == [k \in 1 .. Len(src) |-> Code(src[k])]

\* where the first end of input of the stream s is, 0 if it has none
FirstEof(s) ==
  IF \E k \in 1 .. Len(s) : s[k] = EOF
  THEN CHOOSE k \in 1 .. Len(s) : s[k] = EOF /\ \A j \in 1 .. (k - 1) : s[j] # EOF
  ELSE 0

\* a memset that clears the cells below the high-water mark
MemsetUsed(tp) == [i \in TapeIdx |-> IF i < max_cell_used THEN 0 ELSE tp[i]]

\* memset(tape, 0, sizeof(tape))
Memset(tp) == [i \in TapeIdx |-> 0]

\* main reads a batch of program text up to the end of input, clears the
\* end-of-input state and calls ExecuteSource; while no end of input has
\* been typed the process waits in getchar
ReadBatch ==
  /\ mode = "interactive"
  /\ pc = "prompt"
  /\ FirstEof(stdin) > 0
  /\ LET k == FirstEof(stdin) IN
       /\ source' = [j \in 1 .. (k - 1) |-> CharOf(stdin[j])]
       /\ stdin' = SubSeq(stdin, k + 1, Len(stdin))
  /\ pc' = "loaded"
  /\ UNCHANGED <<source_ptr, stack, stack_ptr, loops, tape, cell, max_cell_used,
                 user_input, debug_counter, memory_counter, out, err, ub>>
  /\ UNCHANGED cvars
  /\ UNCHANGED xvars

\* ExecuteSource has returned to main: the tape, the pointer, the mark and
\* the counters are reset, and main goes round to read the next batch
BatchReset ==
  /\ mode = "interactive"
  /\ pc = "halted"
  /\ tape' = Memset(tape)
  /\ cell' = 0
  /\ max_cell_used' = 0
  /\ debug_counter' = 1
  /\ memory_counter' = 1
  /\ source' = <<>>
  /\ pc' = "prompt"
  /\ UNCHANGED <<source_ptr, stack, stack_ptr, loops, user_input, stdin, out,
                 err, ub>>
  /\ UNCHANGED cvars
  /\ UNCHANGED xvars

\* the characters of the batches typed
SessionChars == {"+", "-", ">", ".", ",", "#", "@"}

\* bf without arguments, and two batches typed, each ended by an end of
\* input; loops and stack are as large as the longest batch
InitSession ==
  \E b1, b2 \in Progs(SessionChars, MaxBatchLen) :
    /\ source = <<>>
    /\ stdin = Codes(b1) \o <<EOF>> \o Codes(b2) \o <<EOF>>
    /\ source_ptr = 0
    /\ stack = [p \in 0 .. (MaxBatchLen - 1) |-> 0]
    /\ stack_ptr = 0
    /\ loops = [p \in 0 .. (MaxBatchLen - 1) |-> 0]
    /\ tape = [i \in TapeIdx |-> 0]
    /\ cell = 0
    /\ max_cell_used = 0
    /\ user_input = 0
    /\ debug_counter = 1
    /\ memory_counter = 1
    /\ out = <<>>
    /\ err = <<>>
    /\ pc = "prompt"
    /\ ub = FALSE
    /\ c_prog = <<>>
    /\ c_pc = 0
    /\ c_cells = [i \in TapeIdx |-> 0]
    /\ c_cell = 0
    /\ c_stdin = <<>>
    /\ c_out = <<>>
    /\ c_state = "none"
    /\ c_ub = FALSE
    /\ mode = "interactive"
    /\ run1 = [state |-> "none", in |-> <<>>]
    /\ NoTranslator
    /\ NoShred
    /\ NoSwordle

\* bf without arguments, and the two batches b1 and b2 typed, each ended by
\* an end of input; loops and stack hold size entries
SessionOf(b1, b2, size) ==
  /\ source = <<>>
  /\ stdin = Codes(b1) \o <<EOF>> \o Codes(b2) \o <<EOF>>
  /\ source_ptr = 0
  /\ stack = [p \in 0 .. (size - 1) |-> 0]
  /\ stack_ptr = 0
  /\ loops = [p \in 0 .. (size - 1) |-> 0]
  /\ tape = [i \in TapeIdx |-> 0]
  /\ cell = 0
  /\ max_cell_used = 0
  /\ user_input = 0
  /\ debug_counter = 1
  /\ memory_counter = 1
  /\ out = <<>>
  /\ err = <<>>
  /\ pc = "prompt"
  /\ ub = FALSE
  /\ c_prog = <<>>
  /\ c_pc = 0
  /\ c_cells = [i \in TapeIdx |-> 0]
  /\ c_cell = 0
  /\ c_stdin = <<>>
  /\ c_out = <<>>
  /\ c_state = "none"
  /\ c_ub = FALSE
  /\ mode = "interactive"
  /\ run1 = [state |-> "none", in |-> <<>>]
  /\ NoTranslator
  /\ NoShred
  /\ NoSwordle

\* two batches of brackets and comments
InitSessionBrackets ==
  \E b1, b2 \in Progs(BracketChars, MaxBrBatchLen) : SessionOf(b1, b2, MaxBrBatchLen)

NextSession ==
  \/ Next
  \/ ReadBatch
  \/ BatchReset

SpecSession == InitSession /\ [][NextSession]_vars

SpecSessionBrackets == InitSessionBrackets /\ [][NextSession]_vars

(***************************************************************************)
(* A second run, on the text without dumps and comments.                   *)
(***************************************************************************)
\* the characters ExecuteSource's switch has an instruction for
Instructions == {"+", "-", "<", ">", ",", ".", "[", "]"}

\* the text without its dump characters and comments
Strip(src) == LET IsInstruction(c) == c \in Instructions IN SelectSeq(src, IsInstruction)

\* the bytes the instructions of a run wrote: its output without the dumps
\* and without the newline that ends the run
BytesOf(o) == LET IsByte(x) == x[1] = "byte" IN SelectSeq(SubSeq(o, 1, Len(o) - 1), IsByte)

\* bf -f has run a text; bf -f is started again, as a new process, on the
\* text without its dumps and comments and on the same input
RunStripped ==
  /\ mode = "file"
  /\ pc = "halted"
  /\ run1.state = "none"
  /\ Strip(source) # source
  /\ run1' = [state |-> "done", in |-> run1.in, src |-> source,
              bytes |-> BytesOf(out), tape |-> tape, ub |-> ub]
  /\ source' = Strip(source)
  /\ stdin' = run1.in
  /\ source_ptr' = 0
  /\ stack' = [p \in Positions(Strip(source)) |-> 0]
  /\ stack_ptr' = 0
  /\ loops' = [p \in Positions(Strip(source)) |-> 0]
  /\ tape' = [i \in TapeIdx |-> 0]
  /\ cell' = 0
  /\ max_cell_used' = 0
  /\ user_input' = 0
  /\ debug_counter' = 1
  /\ memory_counter' = 1
  /\ out' = <<>>
  /\ err' = <<>>
  /\ pc' = "loaded"
  /\ ub' = FALSE
  /\ UNCHANGED cvars
  /\ UNCHANGED <<mode, shvars, swvars, tvars>>

\* the characters of the programs run twice: loops that count a byte read
\* down to 0, output, both dumps and a comment
StripChars == {",", "-", ".", "[", "]", "#", "@", "x"}

\* no input or one newline, for a program that reads
StripInputs(src) ==
  IF \E k \in 1 .. Len(src) : src[k] = "," THEN {<<>>, <<NEWLINE>>} ELSE {<<>>}

\* bf -f on a well-bracketed program, then on the program without its dumps
\* and comments
InitStrip ==
  \E src \in BalancedProgs(StripChars, MaxStripLen) : \E in \in StripInputs(src) : Fresh(src, in)

NextStrip ==
  \/ Next
  \/ RunStripped

SpecStrip == InitStrip /\ [][NextStrip]_vars

\* no interpreter process
NoInterpreter ==
  /\ source = <<>>
  /\ stdin = <<>>
  /\ source_ptr = 0
  /\ stack = <<>>
  /\ stack_ptr = 0
  /\ loops = <<>>
  /\ tape = [i \in TapeIdx |-> 0]
  /\ cell = 0
  /\ max_cell_used = 0
  /\ user_input = 0
  /\ debug_counter = 1
  /\ memory_counter = 1
  /\ out = <<>>
  /\ err = <<>>
  /\ pc = "absent"
  /\ ub = FALSE
  /\ c_prog = <<>>
  /\ c_pc = 0
  /\ c_cells = [i \in TapeIdx |-> 0]
  /\ c_cell = 0
  /\ c_stdin = <<>>
  /\ c_out = <<>>
  /\ c_state = "none"
  /\ c_ub = FALSE
  /\ mode = "file"
  /\ run1 = [state |-> "none", in |-> <<>>]

\* bf -t on a file of any text
InitBfToC ==
  /\ NoInterpreter
  /\ NoShred
  /\ NoSwordle
  /\ t_text \in Progs(AllChars, MaxEmitLen)
  /\ t_pos = 0
  /\ t_file = <<>>
  /\ t_pc = "start"

NextBfToC ==
  \/ BfToCOpen
  \/ BfToCStep
  \/ BfToCEnd

SpecBfToC == InitBfToC /\ [][NextBfToC]_vars

\* the words a command line of shred is made of
ArgWords == Commands \cup {"wipe", "file", "-l", "-ll"}

\* shred started with up to MaxArgs arguments
InitShred ==
  /\ NoInterpreter
  /\ NoTranslator
  /\ NoSwordle
  /\ argv \in Progs(ArgWords, MaxArgs)
  /\ level = 0
  /\ passes = 0
  /\ pass_i = 0
  /\ written = <<>>
  /\ sh_pc = "main"

NextShred ==
  \/ ShredMain
  \/ SecureOverwritePass
  \/ SecureOverwriteEnd

SpecShred == InitShred /\ [][NextShred]_vars

\* swordle started: main is about to call get_input
InitSwordle ==
  /\ NoInterpreter
  /\ NoTranslator
  /\ NoShred
  /\ current_line = 0
  /\ game_over = FALSE
  /\ sw_user_input = <<>>
  /\ current_word = <<>>
  /\ guess_list = ClearGuessList
  /\ outcome = "none"
  /\ sw_ub = FALSE
  /\ sw_pc = "menu"

NextSwordle ==
  \/ GetInput
  \/ GetInputAtEof

SpecSwordle == InitSwordle /\ [][NextSwordle]_vars

(***************************************************************************)
(* The reference bracket matching.                                         *)
(***************************************************************************)
\* the '[' at position i and the ']' at position j enclose nested text
Partners(src, i, j) ==
  /\ i < j
  /\ SrcAt(src, i) = "["
  /\ SrcAt(src, j) = "]"
  /\ Nested(src, i + 1, j - 1)

\* a report on standard error: what is missing, at which byte, and the
\* column of the caret under the echoed source
Report(k, p) == [kind |-> k, pos |-> p, caret |-> p]

\* InitLoops has returned
Resolved == pc \in {"exec", "halted", "crashed"}

\* C1: for a well-balanced program the jump map is the reference matching:
\* loops[i] = j and loops[j] = i exactly for the '[' at i and the ']' at
\* j > i that enclose balanced text, and every bracket has such a partner.
JumpMapIsMatching ==
  (Resolved /\ Balanced(source)) =>
    /\ \A i, j \in Positions(source) :
         (SrcAt(source, i) = "[" /\ SrcAt(source, j) = "]") =>
           (Partners(source, i, j) <=> (loops[i] = j /\ loops[j] = i))
    /\ \A i \in Positions(source) :
         /\ SrcAt(source, i) = "[" => Partners(source, i, loops[i])
         /\ SrcAt(source, i) = "]" => Partners(source, loops[i], i)

JumpMapIsMatchingWitness ==
  /\ pc = "halted"
  /\ source = <<"[", "x", "[", "]", "]">>
  /\ loops[0] = 4
  /\ loops[4] = 0
  /\ loops[2] = 3
  /\ loops[3] = 2

\* C2: for a well-balanced program the jump map is an involution on the
\* bracket positions: loops[loops[i]] = i.
JumpMapInvolution ==
  (Resolved /\ Balanced(source)) =>
    \A i \in Positions(source) :
      SrcAt(source, i) \in {"[", "]"} =>
        /\ loops[i] \in Positions(source)
        /\ loops[loops[i]] = i

JumpMapInvolutionWitness ==
  /\ pc = "exec"
  /\ source = <<"x", "[", "[", "]", "]">>
  /\ loops[loops[1]] = 1
  /\ loops[loops[2]] = 2
  /\ loops[1] = 4

\* the reports of the entries stk[sptr - 1], ..., stk[0], the last pushed first
AllPending(stk, sptr) == [k \in 1 .. sptr |-> Report("missing ]", stk[sptr - k])]

\* C8: at the end of the scan every '[' still on the stack is reported as
\* unmatched, one report each, the last pushed first.
EveryPendingOpenReported ==
  [][(pc = "scan" /\ source_ptr >= source_length) =>
       err' = err \o AllPending(stack, stack_ptr)]_vars

\* C9: a ']' scanned with the stack empty is reported at its position, no
\* map entry is written, the stack stays empty and the scan goes on; the
\* brackets that nest are paired all the same when the scan is over.
UnmatchedCloseReported ==
  [][/\ (pc = "scan" /\ source_ptr < source_length
          /\ SrcAt(source, source_ptr) = "]" /\ stack_ptr = 0) =>
            /\ err' = Append(err, Report("missing [", source_ptr))
            /\ loops' = loops
            /\ stack_ptr' = 0
            /\ source_ptr' = source_ptr + 1
            /\ pc' = "scan"
     /\ (pc = "scan" /\ pc' = "exec") =>
            \A i, j \in Positions(source) :
              Partners(source, i, j) => (loops'[i] = j /\ loops'[j] = i)
    ]_vars

UnmatchedCloseReportedWitness ==
  /\ pc = "exec"
  /\ source = <<"]", "[", "]">>
  /\ err = <<Report("missing [", 0)>>
  /\ loops = (0 :> 0 @@ 1 :> 2 @@ 2 :> 1)

\* C10: the program '[' alone on a fresh process: one report, a missing
\* ']' at position 0, no map entry, and the run reaches Halted.
LoneOpenHalts ==
  (source = <<"[">>) =>
    /\ [](loops = (0 :> 0))
    /\ [](err \in {<<>>, <<Report("missing ]", 0)>>})
    /\ <>[](pc = "halted" /\ err = <<Report("missing ]", 0)>> /\ ~ub)

LoneOpenHaltsWitness ==
  /\ source = <<"[">>
  /\ pc = "halted"
  /\ err = <<Report("missing ]", 0)>>
  /\ loops[0] = 0


(***************************************************************************)
(* The instructions.                                                       *)
(***************************************************************************)
\* ExecuteSource is about to execute the character c with the pointer on
\* the tape
About(c) ==
  /\ pc = "exec"
  /\ source_ptr < source_length
  /\ SrcAt(source, source_ptr) = c
  /\ cell \in TapeIdx

\* C4: '-' on a cell at 0 leaves it at 0, '-' on a positive cell takes one
\* from it, and no other cell changes.
DecrementSaturates ==
  [][About("-") =>
       /\ tape[cell] = 0 => tape'[cell] = 0
       /\ tape[cell] > 0 => tape'[cell] = tape[cell] - 1
       /\ \A i \in TapeIdx \ {cell} : tape'[i] = tape[i]
       /\ cell' = cell]_vars

DecrementSaturatesWitness ==
  /\ pc = "halted"
  /\ source = <<"+", "-", "-">>
  /\ tape[0] = 0
  /\ ~ub

\* C5: every cell of the tape holds a value of the advertised range
\* 0 .. 32767 in every state of a run.
CellsInRange == \A i \in TapeIdx : tape[i] \in 0 .. SHRT_MAX

\* C6: '+' n times then "[-]" on a fresh tape halts with the current cell
\* at 0, and the loop is left exactly when the cell first reaches zero: the
\* body is never entered again with the cell at 0, and the run is past the
\* loop only with the cell at 0.
CountedLoopHalts ==
  /\ [](pc = "exec" =>
          /\ source_ptr = source_length - 2 => tape[cell] > 0
          /\ source_ptr = source_length => tape[cell] = 0)
  /\ <>[](pc = "halted" /\ cell = 0 /\ tape[cell] = 0 /\ ~ub)

CountedLoopHaltsWitness ==
  /\ pc = "halted"
  /\ source = <<"+", "+", "+", "[", "-", "]">>
  /\ tape[0] = 0

\* C7: ',' at the end of input changes neither the tape nor the rest of the
\* machine and the run goes on with the next instruction; a unit that is
\* there is stored in the current cell. So ",." writes the unit read, or
\* the cell's 0 when there is none.
InputAtEndIsNoOp ==
  [][/\ (About(",") /\ stdin = <<>>) =>
          /\ user_input' = EOF
          /\ source_ptr' = source_ptr + 1
          /\ pc' = "exec"
          /\ UNCHANGED <<tape, cell, max_cell_used, debug_counter,
                         memory_counter, out, err, loops, stack, stack_ptr,
                         source, stdin>>
     /\ (About(",") /\ stdin # <<>>) =>
          /\ tape' = [tape EXCEPT ![cell] = Head(stdin)]
          /\ stdin' = Tail(stdin)
          /\ source_ptr' = source_ptr + 1
     /\ (source = <<",", ".">> /\ pc' = "halted") =>
          out' = << <<"byte", IF user_input' = EOF THEN 0 ELSE user_input'>>,
                    <<"byte", NEWLINE>> >>
    ]_vars

InputAtEndIsNoOpWitness ==
  /\ pc = "halted"
  /\ source = <<",", ".">>
  /\ user_input = EOF
  /\ out = << <<"byte", 0>>, <<"byte", NEWLINE>> >>

(***************************************************************************)
(* Translation.                                                            *)
(***************************************************************************)
\* the bytes the instructions of the interpreted run wrote: its output
\* without the debug dumps and without the newline that ends the run
InterpretedBytes ==
  LET IsByte(x) == x[1] = "byte"
  IN  SelectSeq(SubSeq(out, 1, Len(out) - 1), IsByte)

\* C3: the program bf_to_c emits writes the bytes the interpreter writes,
\* for every balanced program and every input.
TranslationPreservesOutput ==
  (pc = "halted" /\ c_state = "done" /\ ~ub /\ ~c_ub) => c_out = InterpretedBytes

(***************************************************************************)
(* Unmatched brackets at run time.                                         *)
(***************************************************************************)
\* the bracket at position p has no partner in the reference matching
Unmatched(src, p) ==
  /\ SrcAt(src, p) \in {"[", "]"}
  /\ \A q \in Positions(src) : ~Partners(src, p, q) /\ ~Partners(src, q, p)

\* InitLoops reported the bracket at position p
Reported(p) == \E k \in 1 .. Len(err) : err[k].pos = p

\* C11: executing a bracket that the resolver reported as unmatched falls
\* through: the cursor moves to the next position, the tape and the pointer
\* keep their values, and the run is not aborted.
UnmatchedBracketFallsThrough ==
  [][(/\ pc = "exec"
      /\ source_ptr < source_length
      /\ Unmatched(source, source_ptr)
      /\ Reported(source_ptr))
       => /\ source_ptr' = source_ptr + 1
          /\ tape' = tape
          /\ cell' = cell
          /\ pc' = "exec"]_vars

(***************************************************************************)
(* Output and the debug dumps.                                             *)
(***************************************************************************)
\* ExecuteSource executes the character at source_ptr and goes on
Executes ==
  /\ pc = "exec"
  /\ source_ptr < source_length
  /\ pc' = "exec"

\* the item of standard output that the instruction c writes
KindOf(c) == IF c = "." THEN "byte" ELSE c

\* longer is seq with one more item at its end
Extends(seq, longer) ==
  /\ Len(longer) = Len(seq) + 1
  /\ SubSeq(longer, 1, Len(seq)) = seq

\* C13: what '.', '#' and '@' write comes out in the order in which they
\* execute, each item after all earlier ones, no other instruction writes,
\* and the run ends with one newline, written after all of them when the
\* cursor has passed the end of the source.
OutputInExecutionOrder ==
  [][/\ Executes =>
          LET c == SrcAt(source, source_ptr) IN
            IF c \in {".", "#", "@"}
            THEN /\ Extends(out, out')
                 /\ out'[Len(out')][1] = KindOf(c)
            ELSE out' = out
     /\ (pc = "exec" /\ pc' = "halted") =>
          /\ source_ptr >= source_length
          /\ out' = Append(out, <<"byte", NEWLINE>>)
     /\ (pc # "exec" \/ pc' = "crashed") => out' = out]_vars

\* "@." has run: the tape report, the byte, the newline
OutputInExecutionOrderWitness ==
  /\ pc = "halted"
  /\ source = <<"@", ".">>
  /\ Len(out) = 3
  /\ out[1][1] = "@"
  /\ out[2] = <<"byte", 0>>
  /\ out[3] = <<"byte", NEWLINE>>

\* the reports of kind k in seq
ReportsOf(k, seq) == LET IsK(x) == x[1] = k IN SelectSeq(seq, IsK)

\* C15: the k-th '#' report carries k and the k-th '@' report carries k;
\* a dump adds one to its own counter and nothing else changes a counter.
DumpCounters ==
  [][/\ Executes =>
          LET c == SrcAt(source, source_ptr) IN
            /\ debug_counter' = debug_counter + (IF c = "#" THEN 1 ELSE 0)
            /\ memory_counter' = memory_counter + (IF c = "@" THEN 1 ELSE 0)
            /\ c \in {"#", "@"} =>
                 out'[Len(out')][2] = Len(ReportsOf(c, out)) + 1
     /\ ~Executes => UNCHANGED <<debug_counter, memory_counter>>
     /\ debug_counter' = Len(ReportsOf("#", out')) + 1
     /\ memory_counter' = Len(ReportsOf("@", out')) + 1]_vars

\* "##@" has run: cell reports 1 and 2, tape report 1
DumpCountersWitness ==
  /\ pc = "halted"
  /\ Len(out) = 4
  /\ out[1][1] = "#" /\ out[1][2] = 1
  /\ out[2][1] = "#" /\ out[2][2] = 2
  /\ out[3][1] = "@" /\ out[3][2] = 1
  /\ debug_counter = 3
  /\ memory_counter = 2

(***************************************************************************)
(* Branches.                                                               *)
(***************************************************************************)
\* the branch of the bracket c is taken on the cell value v
Taken(c, v) == (c = "[" /\ v = 0) \/ (c = "]" /\ v # 0)

\* the partner of the bracket at position p
PartnerOf(src, p) ==
  CHOOSE q \in Positions(src) : Partners(src, p, q) \/ Partners(src, q, p)

\* ExecuteSource executes a bracket of a balanced program, pointer on the tape
ExecutesBracket ==
  /\ Executes
  /\ Balanced(source)
  /\ cell \in TapeIdx
  /\ SrcAt(source, source_ptr) \in {"[", "]"}

\* C18 as stated: a taken branch leaves the cursor on the partner bracket,
\* which is the next instruction evaluated; a branch not taken moves the
\* cursor by one.
BranchEvaluatesPartner ==
  [][ExecutesBracket =>
       source_ptr' = IF Taken(SrcAt(source, source_ptr), tape[cell])
                     THEN PartnerOf(source, source_ptr)
                     ELSE source_ptr + 1]_vars

\* C18: a taken branch sets the cursor to the partner's position and the
\* loop's increment moves it on, so the next instruction evaluated is the one
\* after the partner bracket; a branch not taken moves the cursor by one.
BranchSkipsPartner ==
  [][ExecutesBracket =>
       source_ptr' = IF Taken(SrcAt(source, source_ptr), tape[cell])
                     THEN PartnerOf(source, source_ptr) + 1
                     ELSE source_ptr + 1]_vars

\* "[x]" after its '[' was executed on the cell at 0: the cursor is past the
\* ']', which was not evaluated
BranchSkipsPartnerWitness ==
  /\ pc = "exec"
  /\ source = <<"[", "x", "]">>
  /\ source_ptr = 3
  /\ tape[0] = 0

(***************************************************************************)
(* The high-water mark.                                                    *)
(***************************************************************************)
\* C19: max_cell_used is the largest value the pointer has had, 0 at first:
\* it never decreases, only '>' changes it, and '>' raises it to the new
\* pointer exactly when the new pointer is above it; the pointer is never
\* above it.
HighWaterIsLargestPointer ==
  /\ [](pc = "loaded" => (cell = 0 /\ max_cell_used = 0))
  /\ [][/\ max_cell_used' >= max_cell_used
        /\ cell' <= max_cell_used'
        /\ max_cell_used' = IF cell' > max_cell_used THEN cell' ELSE max_cell_used
        /\ max_cell_used' # max_cell_used =>
             (Executes /\ SrcAt(source, source_ptr) = ">")]_vars

(***************************************************************************)
(* Counted output.                                                         *)
(***************************************************************************)
\* the source is n times '+' and then '.'
IsPlusDot(n) ==
  /\ source_length = n + 1
  /\ \A p \in 0 .. (n - 1) : SrcAt(source, p) = "+"
  /\ SrcAt(source, n) = "."

\* C14 as stated: n times '+' and then '.' on a fresh tape writes exactly
\* one output unit, of value n, before the newline that ends the run.
PlusDotWritesN ==
  LET n == source_length - 1 IN
    (pc = "halted" /\ IsPlusDot(n)) => out = << <<"byte", n>>, <<"byte", NEWLINE>> >>

\* C14: n times '+' and then '.' on a fresh tape writes exactly one output
\* unit before the newline that ends the run, the byte n modulo 256: n
\* itself for n up to 255.
PlusDotWritesLowByte ==
  LET n == source_length - 1 IN
    (pc = "halted" /\ IsPlusDot(n)) =>
      /\ out = << <<"byte", n % (UCHAR_MAX + 1)>>, <<"byte", NEWLINE>> >>
      /\ n <= UCHAR_MAX => out[1][2] = n

\* "+++." has run and written 3
PlusDotWritesLowByteWitness ==
  /\ pc = "halted"
  /\ source = <<"+", "+", "+", ".">>
  /\ tape[0] = 3
  /\ out = << <<"byte", 3>>, <<"byte", NEWLINE>> >>

(***************************************************************************)
(* shred: the passes of each security level.                               *)
(***************************************************************************)
\* n passes of the kind k
Of(n, k) == [j \in 1 .. n |-> k]

\* the kinds of passes the header of shred.c and the comment of
\* secure_overwrite give for a level
DocumentedKinds(lv) ==
  IF lv = 0 THEN <<"ff">> \o Of(5, "random") \o Of(27, "special") \o Of(5, "random")
  ELSE IF lv = 1 THEN <<"ff", "random">>
  ELSE <<"random">>

\* the kinds of the passes written
WrittenKinds == [j \in 1 .. Len(written) |-> written[j].kind]

\* C16: secure_overwrite returns having written the passes documented for
\* the level: by default 38 passes (0xFF, five random, 27 special values,
\* five random), each followed by a flush; with -l a 0xFF pass and a random
\* pass; with -ll one random pass.
PassesAsDocumented ==
  sh_pc = "done" =>
    /\ WrittenKinds = DocumentedKinds(level)
    /\ level = 0 => \A j \in 1 .. Len(written) : written[j].flushed

(***************************************************************************)
(* swordle: the guesses of a game.                                         *)
(***************************************************************************)
\* C17: a game records at most MAX_GUESSES guesses: current_line never
\* exceeds MAX_GUESSES, no write to guess_list is at index GUESS_ARRAY_SIZE
\* or more, and once the game is over guess_list and current_line keep
\* their values until PLAY starts a new game.
AtMostSixGuesses ==
  /\ [](current_line <= MAX_GUESSES /\ ~sw_ub)
  /\ [][game_over =>
          \/ guess_list' = guess_list /\ current_line' = current_line
          \/ /\ current_line' = 0
             /\ \A k \in 0 .. (GUESS_ARRAY_SIZE - 1) : guess_list'[k] = NULL_CHAR
             /\ current_word' \in Words]_vars

\* a game lost on its sixth guess
AtMostSixGuessesWitness ==
  /\ sw_pc = "game"
  /\ game_over
  /\ outcome = "lost"
  /\ current_line = MAX_GUESSES
  /\ guess_list[GUESS_ARRAY_SIZE - 1] # NULL_CHAR

(***************************************************************************)
(* Interactive mode.                                                       *)
(***************************************************************************)
\* C12: in interactive mode every batch starts on a cleared machine,
\* whatever the batch before it did: when ExecuteSource is called and until
\* its first instruction every tape cell is 0, the pointer and the
\* high-water mark are 0 and both dump counters are 1, and execution starts
\* with the cursor at position 0.
BatchStartsClean ==
  /\ []((mode = "interactive" /\ pc \in {"loaded", "scan"}) =>
          /\ \A i \in TapeIdx : tape[i] = 0
          /\ cell = 0
          /\ max_cell_used = 0
          /\ debug_counter = 1
          /\ memory_counter = 1)
  /\ [][(mode = "interactive" /\ pc = "scan" /\ pc' = "exec") =>
          source_ptr' = 0]_vars

\* the batch "#" is about to run after the batch "+#", which wrote a report
\* of cell 0 at 1 and left debug_counter at 2
BatchStartsCleanWitness ==
  /\ mode = "interactive"
  /\ pc = "loaded"
  /\ out = << <<"#", 1, 0, 1>>, <<"byte", NEWLINE>> >>
  /\ source = <<"#">>

(***************************************************************************)
(* Dumps and comments.                                                     *)
(***************************************************************************)
\* C20: executing '#', '@' or a character that is no instruction leaves
\* every tape cell, the pointer and the high-water mark as they are and
\* moves the cursor by one; and a balanced program without these characters
\* writes the same '.' bytes and ends on the same tape as the program with
\* them.
DumpsAndCommentsInert ==
  /\ [][(Executes /\ SrcAt(source, source_ptr) \notin
                       {"+", "-", "<", ">", ",", ".", "[", "]"}) =>
          /\ tape' = tape
          /\ cell' = cell
          /\ max_cell_used' = max_cell_used
          /\ source_ptr' = source_ptr + 1]_vars
  /\ []((pc = "halted" /\ run1.state = "done" /\ ~ub /\ ~run1.ub) =>
          /\ BytesOf(out) = run1.bytes
          /\ tape = run1.tape)

\* ",[x-]" and then ",[-]" have run on a newline: the loop ran ten times
\* in both and left the cell at 0
DumpsAndCommentsInertWitness ==
  /\ pc = "halted"
  /\ run1.state = "done"
  /\ run1.src = <<",", "[", "x", "-", "]">>
  /\ run1.in = <<NEWLINE>>
  /\ source = <<",", "[", "-", "]">>
  /\ user_input = NEWLINE
  /\ tape[0] = 0

(***************************************************************************)
(* bf -t: the file bf_to_c writes.                                         *)
(***************************************************************************)
\* the eight operators and the statement each one stands for
SnippetOf ==
  [c \in {">", "<", "+", "-", ".", ",", "[", "]"} |->
     CASE c = ">" -> "++cell;"
       [] c = "<" -> "--cell;"
       [] c = "+" -> "++*cell;"
       [] c = "-" -> "--*cell;"
       [] c = "." -> "putchar(*cell);"
       [] c = "," -> "*cell = getchar();"
       [] c = "[" -> "while (*cell) {"
       [] c = "]" -> "}"]

\* the operators of a text, in order
OperatorsOf(text) ==
  LET IsOperator(c) == c \in DOMAIN SnippetOf IN SelectSeq(text, IsOperator)

\* the brackets of a text, in order
BracketsOf(text) ==
  LET IsBracket(c) == c \in {"[", "]"} IN SelectSeq(text, IsBracket)

\* the braces of the lines of a C file, as brackets
BracesOf(lines) ==
  [i \in 1 .. Len(lines) |->
     IF lines[i] \in {"{", "if (!cell) {", "while (*cell) {"} THEN "["
     ELSE IF lines[i] = "}" THEN "]"
     ELSE "x"]

\* the lines of the file between the prologue and the epilogue
BodyOf(file) == SubSeq(file, Len(Prologue) + 1, Len(file) - Len(Epilogue))

\* the file starts with the prologue, which allocates the buffer and checks
\* it, and ends with the epilogue, which frees it
FileIsComplete ==
  /\ Len(t_file) >= Len(Prologue) + Len(Epilogue)
  /\ SubSeq(t_file, 1, Len(Prologue)) = Prologue
  /\ SubSeq(t_file, Len(t_file) - Len(Epilogue) + 1, Len(t_file)) = Epilogue
  /\ \E i, j \in 1 .. Len(Prologue) :
       /\ i < j
       /\ t_file[i] = "unsigned char *cell = calloc(16777216, 1);"
       /\ t_file[j] = "if (!cell) {"
  /\ \E i \in 1 .. Len(Epilogue) : Epilogue[i] = "free(cells);"

\* C21: the file bf_to_c writes is the prologue, then one fixed statement
\* for each occurrence of the eight operators, in source order, and nothing
\* for any other character, then the epilogue; for a balanced text the
\* while blocks are well nested, with the nesting of the source's brackets.
OneSnippetPerOperator ==
  t_pc = "done" =>
    LET ops == OperatorsOf(t_text)
        body == BodyOf(t_file)
    IN  /\ FileIsComplete
        /\ Len(body) = Len(ops)
        /\ \A i \in 1 .. Len(ops) : body[i] = SnippetOf[ops[i]]
        /\ Balanced(t_text) =>
             /\ BracketsOf(BracesOf(body)) = BracketsOf(t_text)
             /\ Balanced(BracesOf(body))
             /\ Balanced(BracesOf(t_file))

\* bf -t has translated "+[#]": three statements, the dump left out
OneSnippetPerOperatorWitness ==
  /\ t_pc = "done"
  /\ t_text = <<"+", "[", "#", "]">>
  /\ BodyOf(t_file) = <<"++*cell;", "while (*cell) {", "}">>

\* C22: for a text with unbalanced brackets bf_to_c reports no error and
\* writes the whole file, prologue to epilogue, and the braces of the file
\* are not well nested: between the prologue and the epilogue the depth
\* falls below that of the function body or does not come back to it.
UnbalancedGivesInvalidSource ==
  /\ (t_pc \in {"emit", "done"}) => err = <<>>
  /\ (t_pc = "done" /\ ~Balanced(t_text)) =>
       /\ FileIsComplete
       /\ Len(BodyOf(t_file)) = Len(OperatorsOf(t_text))
       /\ out = << <<"converted">> >>
       /\ ~Nested(BracesOf(t_file), Len(Prologue),
                  Len(t_file) - Len(Epilogue) - 1)

\* bf -t has translated "][": the function body is closed before the
\* while block opens
UnbalancedGivesInvalidSourceWitness ==
  /\ t_pc = "done"
  /\ t_text = <<"]", "[">>
  /\ BodyOf(t_file) = <<"}", "while (*cell) {">>
  /\ err = <<>>

(***************************************************************************)
(* Interactive mode: one batch after another.                              *)
(***************************************************************************)
\* the jump-map entry of position p after InitLoops on a fresh process: the
\* partner of a matched bracket, the 0 of the global for an unmatched one
FreshEntry(src, p) == IF Unmatched(src, p) THEN 0 ELSE PartnerOf(src, p)

\* the cursor after the instruction at position p of a batch of brackets and
\* comments on a fresh process, every cell being 0: '[' jumps by its entry,
\* ']' and a comment fall through
FreshStep(src, p) ==
  IF Taken(SrcAt(src, p), 0) THEN FreshEntry(src, p) + 1 ELSE p + 1

\* the batch, run from position p on a fresh process, ends within n steps
RECURSIVE FreshHalts(_, _, _)
FreshHalts(src, p, n) ==
  IF p >= Len(src) THEN TRUE
  ELSE IF n = 0 THEN FALSE
  ELSE FreshHalts(src, FreshStep(src, p), n - 1)

\* C23: what a batch does depends on its own text and input only, whatever
\* batches came before it: a batch of brackets and comments that ends in a
\* session also ends when it is the first thing a process runs (the cursor,
\* moving among Len(source) positions over cells that stay 0, either leaves
\* the text within Len(source) steps or never).
BatchIndependentOfEarlier ==
  (mode = "interactive" /\ pc = "halted") => FreshHalts(source, 0, Len(source))

(***************************************************************************)
(* The jump map against structured evaluation.                             *)
(***************************************************************************)
\* the ']' that closes the loop opened at position p
LoopEnd(src, p) == CHOOSE q \in Positions(src) : Partners(src, p, q)

\* the '[' that opens the loop closed at position p
LoopHead(src, p) == CHOOSE q \in Positions(src) : Partners(src, q, p)

\* structured evaluation, with each '[' body ']' a loop "while the current
\* cell is non-zero": the position of the next instruction after the one at
\* position p, v being the current cell. At '[' the test is made: the body is
\* entered or the loop is left. At ']' the body is over and the test is made
\* again: the body is entered again or the loop is left. Any other instruction
\* is followed by the next one of the text.
WhileNext(src, p, v) ==
  IF SrcAt(src, p) = "[" THEN (IF v # 0 THEN p + 1 ELSE LoopEnd(src, p) + 1)
  ELSE IF SrcAt(src, p) = "]" THEN (IF v # 0 THEN LoopHead(src, p) + 1 ELSE p + 1)
  ELSE p + 1

\* the values the test of a loop may find in the current cell
CurrentCell == IF cell \in TapeIdx THEN {tape[cell]} ELSE UBReads

GuessAt(r) == [i \in 1 .. WORD_LENGTH |-> guess_list[WORD_LENGTH * r + i - 1]]

\* C25: a game is announced as won only after a guess equal to the hidden
\* word was entered in that game: at "You win!" at least one guess has been
\* recorded since PLAY (current_line > 0) and one of the recorded lines is
\* the hidden word, whatever was guessed in earlier games.
WinNeedsGuessInSameGame ==
  (sw_pc = "game" /\ outcome = "won" /\ ~sw_ub) =>
    /\ current_line > 0
    /\ \E r \in 0 .. (current_line - 1) : GuessAt(r) = current_word

=============================================================================
